---------------------------- MODULE Spec2Model ----------------------------
(***************************************************************************)
(* Policy routing manager of spiderpool (pkg/networking/networking/route.go) *)
(* as a state machine over the kernel's route and rule tables.             *)
(*                                                                         *)
(* The kernel (reached through vishvananda/netlink) is the environment:    *)
(*   - a routing table holds at most one route per (table, family,         *)
(*     destination); RouteAdd of a second one answers EEXIST whatever its  *)
(*     gateway or link;                                                    *)
(*   - RouteDel removes the route matching the descriptor or answers ESRCH;*)
(*     a descriptor without destination addresses the default route, and a *)
(*     single-nexthop descriptor meeting a multipath route removes that    *)
(*     nexthop, the whole route, or nothing, depending on the kernel;      *)
(*   - a rule submitted without family, source and destination is filed as *)
(*     an IPv4 rule;                                                       *)
(*   - LinkByName of an unknown name fails (the model returns NoLink);     *)
(*   - any route or rule mutation may also be refused for a reason outside *)
(*     the model (EPERM);                                                  *)
(*   - RouteList reports every route of the family, in dump order, and is  *)
(*     assumed not to fail.                                                *)
(***************************************************************************)
EXTENDS Integers, Sequences, FiniteSets, TLC

VARIABLES
    routes,     \* kernel routes, in dump order
    rules,      \* kernel policy rules, in lookup order
    pc,         \* "idle" | "loop" | "add" | "done": position inside MoveRouteTable
    cur,        \* the call in progress or last returned: [op, args, err]
    prev,       \* the call before it
    routes0,    \* kernel routes when cur was called
    rules0,     \* kernel rules when cur was called
    rules00,    \* kernel rules when prev was called
    routes00,   \* kernel routes when prev was called
    mList,      \* MoveRouteTable: the routes RouteList returned
    mIdx,       \* MoveRouteTable: index of the loop over mList
    mAdd,       \* MoveRouteTable: the route deleted and still to be added
    klog,       \* kernel mutations issued by cur: <<[op, route, errno]>>
    result,     \* value returned by the last query
    calls       \* number of mutating calls made so far

vars == <<routes, rules, pc, cur, prev, routes0, rules0, rules00, routes00,
          mList, mIdx, mAdd, klog, result, calls>>

----------------------------------------------------------------------------
(* Bounds *)

\* routes present in the kernel before the first call
MaxRoutes == 2
\* AddRoute calls in one behaviour
MaxRouteCalls == 2
\* rule-table calls in one behaviour
MaxRuleCalls == 2
\* policy rules present in the kernel before the first call
MaxRules == 1
\* MoveRouteTable calls in one behaviour, where the call is repeated
MaxMoveCalls == 2
\* routes present in the kernel before the first of them
MaxScan == 3

----------------------------------------------------------------------------
(* Addresses, networks, links *)

FAMILY_ALL == 0
FAMILY_V4 == 2
FAMILY_V6 == 10
defaultRulePriority == 1000

Families == {FAMILY_V4, FAMILY_V6, FAMILY_ALL}

Tables == {254, 100}

\* a nil net.IP
NilIP == "nil"
V4Addrs == {"0.0.0.0", "10.1.1.1", "10.0.0.1", "10.1.0.0"}
V6Addrs == {"fe80::", "fe80::1", "2001:db8::", "2001:db8::1"}

\* a nil *net.IPNet
NilNet == [IP |-> NilIP, Len |-> 0]

Net(ip, len) == [IP |-> ip, Len |-> len]

To4NotNil(ip) == ip \in V4Addrs

IPFamily(ip) == IF To4NotNil(ip) THEN FAMILY_V4 ELSE FAMILY_V6

IPString(ip) == IF ip = NilIP THEN "<nil>" ELSE ip

IPNetString(n) == IF n = NilNet THEN "<nil>" ELSE n.IP \o "/" \o ToString(n.Len)

\* the kernel's links: name and index; index 0 is no link
Links == {[Name |-> "eth0", Index |-> 1], [Name |-> "net1", Index |-> 2]}

\* mutant: the error of netlink.LinkByName is not looked at
LinkByNameOK_Always(name) == TRUE

LinkByNameOK(name) == \E l \in Links : l.Name = name

\* what netlink.LinkByName leaves in link when it fails
NoLink == [Name |-> "", Index |-> 0]

LinkByName(name) ==
    IF \E l \in Links : l.Name = name THEN CHOOSE l \in Links : l.Name = name
    ELSE NoLink

LinkByIndexOK(idx) == \E l \in Links : l.Index = idx

LinkByIndex(idx) == CHOOSE l \in Links : l.Index = idx

----------------------------------------------------------------------------
(* Routes *)

Route(link, fam, dst, gw, table, scope, mtu, mp) ==
    [LinkIndex |-> link, Family |-> fam, Dst |-> dst, Gw |-> gw, Table |-> table,
     Scope |-> scope, MTU |-> mtu, MultiPath |-> mp]

NexthopInfo(link, gw) == [LinkIndex |-> link, Gw |-> gw]

\* the family the kernel files a route under: netlink takes it from Dst, else Gw
RouteFamily(r) ==
    IF r.Dst # NilNet THEN IPFamily(r.Dst.IP)
    ELSE IF r.Gw # NilIP THEN IPFamily(r.Gw)
    ELSE IF Len(r.MultiPath) > 0 THEN IPFamily(r.MultiPath[1].Gw)
    ELSE r.Family

\* nil and the all-zeros prefix are the same destination to the kernel
KeyDst(dst) ==
    IF dst = NilNet \/ (dst.Len = 0 /\ dst.IP \in {"0.0.0.0", "::"}) THEN NilNet ELSE dst

RouteKey(r) == <<r.Table, RouteFamily(r), KeyDst(r.Dst)>>

SeqToSet(s) == {s[i] : i \in 1..Len(s)}

RemoveAt(s, i) == SubSeq(s, 1, i - 1) \o SubSeq(s, i + 1, Len(s))

\* index of the first element of s satisfying P, 0 when there is none
FirstIndex(s, P(_)) ==
    IF \E i \in 1..Len(s) : P(s[i])
    THEN CHOOSE i \in 1..Len(s) : P(s[i]) /\ \A j \in 1..(i - 1) : ~P(s[j])
    ELSE 0

----------------------------------------------------------------------------
(* The kernel's route table, as netlink.RouteList / RouteAdd / RouteDel see it *)

\* netlink.RouteList(nil, family): every route of the family, in dump order
RouteList(rs, fam) ==
    SelectSeq(rs, LAMBDA r : fam = FAMILY_ALL \/ r.Family = fam)

\* netlink refuses a route with neither destination nor gateway, and one whose
\* gateway is of another family than its destination
RouteInvalid(r) ==
    \/ r.Dst = NilNet /\ r.Gw = NilIP
    \/ r.Dst # NilNet /\ r.Gw # NilIP /\ IPFamily(r.Dst.IP) # IPFamily(r.Gw)

KResult(errno, rs) == [errno |-> errno, routes |-> rs]

\* netlink.RouteAdd (NLM_F_CREATE|NLM_F_EXCL)
KRouteAdd(rs, r, fault) ==
    IF fault THEN KResult("EPERM", rs)
    ELSE IF RouteInvalid(r) THEN KResult("EINVAL", rs)
    ELSE IF \E i \in 1..Len(rs) : RouteKey(rs[i]) = RouteKey(r) THEN KResult("EEXIST", rs)
    ELSE KResult("ok", Append(rs, [r EXCEPT !.Family = RouteFamily(r)]))

\* a single-nexthop route matched by a delete descriptor
PlainMatch(x, r) ==
    /\ Len(x.MultiPath) = 0
    /\ RouteKey(x) = RouteKey(r)
    /\ (r.Gw = NilIP \/ x.Gw = r.Gw)
    /\ (r.LinkIndex = 0 \/ x.LinkIndex = r.LinkIndex)

\* a multipath route one of whose nexthops is matched by a delete descriptor
NexthopMatch(x, r) ==
    /\ Len(x.MultiPath) > 0
    /\ RouteKey(x) = RouteKey(r)
    /\ \E k \in 1..Len(x.MultiPath) :
          x.MultiPath[k].LinkIndex = r.LinkIndex /\ x.MultiPath[k].Gw = r.Gw

\* a multipath route without its nexthops matched by r; one nexthop left is a plain route
DropNexthop(x, r) ==
    LET rest == SelectSeq(x.MultiPath,
                          LAMBDA v : ~(v.LinkIndex = r.LinkIndex /\ v.Gw = r.Gw))
    IN  IF Len(rest) = 1
        THEN [x EXCEPT !.LinkIndex = rest[1].LinkIndex, !.Gw = rest[1].Gw,
                       !.MultiPath = <<>>]
        ELSE [x EXCEPT !.MultiPath = rest]

\* netlink.RouteDel. What the kernel does with a single-nexthop descriptor that
\* names one nexthop of a multipath route depends on the kernel (how): it drops
\* that nexthop, drops the whole route, or finds no match.
KRouteDel(rs, r, fault, how) ==
    IF fault THEN KResult("EPERM", rs)
    ELSE IF RouteInvalid(r) THEN KResult("EINVAL", rs)
    ELSE LET i == FirstIndex(rs, LAMBDA x : PlainMatch(x, r))
             j == FirstIndex(rs, LAMBDA x : NexthopMatch(x, r))
         IN  IF i > 0 THEN KResult("ok", RemoveAt(rs, i))
             ELSE IF j = 0 \/ how = "esrch" THEN KResult("ESRCH", rs)
             ELSE IF how = "whole" \/ Len(rs[j].MultiPath) = 1
                  THEN KResult("ok", RemoveAt(rs, j))
             ELSE KResult("ok", [rs EXCEPT ![j] = DropNexthop(rs[j], r)])

DelOutcomes == {"nexthop", "whole", "esrch"}

\* os.IsExist(err)
IsExist(errno) == errno = "EEXIST"

KLog(op, r, errno) == [op |-> op, route |-> r, errno |-> errno]

Call(op, args, err) == [op |-> op, args |-> args, err |-> err]

NoCall == Call("none", <<>>, "nil")

NoRoute == Route(0, FAMILY_ALL, NilNet, NilIP, 0, "universe", 0, <<>>)

----------------------------------------------------------------------------
(* MoveRouteTable *)

\* mutant: the table of the route is not looked at
NotInSrcTable_Never(route, src) == FALSE

\* route.Table != srcRuleTable
NotInSrcTable(route, src) == route.Table # src

\* mutant: the link-local test compares with the wrong prefix
IsLocalLinkRoute_WrongPrefix(route) == IPNetString(route.Dst) = "fe80::/10"

\* route.Dst.String() == "fe80::/64"
IsLocalLinkRoute(route) == IPNetString(route.Dst) = "fe80::/64"

\* mutant: the link test is dropped, any route with a link is taken
OwnedByLink_AnyLink(route, link) == route.LinkIndex # 0

\* route.LinkIndex == link.Attrs().Index
OwnedByLink(route, link) == route.LinkIndex = link.Index

\* mutant: the table of the re-added route is not rewritten
MovedRoute_KeepsTable(route, dst) == route

\* the route re-added after the delete: route.Table = dstRuleTable
MovedRoute(route, dst) == [route EXCEPT !.Table = dst]

\* mutant: the scan of the nexthops stops at the first one, whatever its link
SegmentOf_First(route, link) == IF Len(route.MultiPath) > 0 THEN 1 ELSE 0

\* index of the first nexthop of route on link, 0 when there is none
SegmentOf(route, link) ==
    FirstIndex(route.MultiPath, LAMBDA v : v.LinkIndex = link.Index)

\* generatedRoute: a single-nexthop route for the new table
GeneratedRoute(route, v, dst) ==
    Route(v.LinkIndex, FAMILY_ALL, NilNet, v.Gw, dst, "universe", route.MTU, <<>>)

\* deletedRoute: the descriptor deleted from the source table
DeletedRoute(v, src) ==
    Route(v.LinkIndex, FAMILY_ALL, NilNet, v.Gw, src, "universe", 0, <<>>)

\* mutant: the result of RouteAdd is ignored
AddFailed_Ignored(errno) == FALSE

\* err != nil && !os.IsExist(err) after RouteAdd
AddFailed(errno) == errno # "ok" /\ ~IsExist(errno)

MoveArgs == {"eth0", "net1", "net9"} \X Tables \X Tables \X Families

\* entry of MoveRouteTable: resolve the link, list the routes
MoveEnter(iface, src, dst, fam) ==
    /\ prev' = cur
    /\ routes0' = routes
    /\ rules0' = rules
    /\ rules00' = rules0
    /\ routes00' = routes0
    /\ klog' = <<>>
    /\ calls' = calls + 1
    /\ mAdd' = NoRoute
    /\ IF ~LinkByNameOK(iface)
       THEN /\ cur' = Call("MoveRoutes", <<iface, src, dst, fam>>, "InterfaceNotFound")
            /\ pc' = "done"
            /\ mList' = <<>>
            /\ mIdx' = 0
       ELSE /\ cur' = Call("MoveRoutes", <<iface, src, dst, fam>>, "pending")
            /\ pc' = "loop"
            /\ mList' = RouteList(routes, fam)
            /\ mIdx' = 1
    /\ UNCHANGED <<routes, rules, result>>

\* the first call
MoveStart(iface, src, dst, fam) ==
    /\ pc = "idle"
    /\ MoveEnter(iface, src, dst, fam)

\* the caller runs the migration again, with the arguments of the call that returned
MoveAgain ==
    /\ pc = "done"
    /\ cur.op = "MoveRoutes"
    /\ calls < MaxMoveCalls
    /\ MoveEnter(cur.args[1], cur.args[2], cur.args[3], cur.args[4])

\* the loop's continue
MoveContinue ==
    /\ mIdx' = mIdx + 1
    /\ pc' = "loop"
    /\ UNCHANGED <<routes, cur, klog, mAdd>>

\* err != nil after RouteDel
DelFailed(errno) == errno # "ok"

\* RouteDel of d; on success m is left to be added
MoveDelete(d, m, fault, how) ==
    LET k == KRouteDel(routes, d, fault, how)
    IN  /\ klog' = Append(klog, KLog("del", d, k.errno))
        /\ routes' = k.routes
        /\ UNCHANGED mIdx
        /\ IF DelFailed(k.errno)
           THEN /\ cur' = [cur EXCEPT !.err = "RouteDeleteFailed"]
                /\ pc' = "done"
                /\ UNCHANGED mAdd
           ELSE /\ pc' = "add"
                /\ mAdd' = m
                /\ UNCHANGED cur

\* one iteration of the loop over the listed routes, up to its RouteDel
MoveIter ==
    /\ pc = "loop"
    /\ UNCHANGED <<rules, prev, routes0, rules0, rules00, routes00, mList, result, calls>>
    /\ LET link == LinkByName(cur.args[1])
           src == cur.args[2]
           dst == cur.args[3]
       IN  IF mIdx > Len(mList)
           THEN /\ cur' = [cur EXCEPT !.err = "nil"]
                /\ pc' = "done"
                /\ UNCHANGED <<routes, klog, mAdd, mIdx>>
           ELSE LET route == mList[mIdx]
                    seg == SegmentOf(route, link)
                IN  IF NotInSrcTable(route, src) THEN MoveContinue
                    ELSE IF IsLocalLinkRoute(route) THEN MoveContinue
                    ELSE IF OwnedByLink(route, link)
                    THEN \E fault \in BOOLEAN, how \in DelOutcomes :
                            MoveDelete(route, MovedRoute(route, dst), fault, how)
                    ELSE IF Len(route.MultiPath) = 0 THEN MoveContinue
                    ELSE IF seg = 0 THEN MoveContinue
                    ELSE \E fault \in BOOLEAN, how \in DelOutcomes :
                            MoveDelete(DeletedRoute(route.MultiPath[seg], src),
                                       GeneratedRoute(route, route.MultiPath[seg], dst),
                                       fault, how)

\* the RouteAdd that follows a successful RouteDel
MoveAdd ==
    /\ pc = "add"
    /\ UNCHANGED <<rules, prev, routes0, rules0, rules00, routes00, mList, result, calls, mAdd>>
    /\ \E fault \in BOOLEAN :
          LET k == KRouteAdd(routes, mAdd, fault)
          IN  /\ klog' = Append(klog, KLog("add", mAdd, k.errno))
              /\ routes' = k.routes
              /\ IF AddFailed(k.errno)
                 THEN /\ cur' = [cur EXCEPT !.err = "RouteAddFailed"]
                      /\ pc' = "done"
                      /\ UNCHANGED mIdx
                 ELSE /\ mIdx' = mIdx + 1
                      /\ pc' = "loop"
                      /\ UNCHANGED cur

\* the loop of MoveRouteTable from route i of list on, when the kernel refuses
\* nothing of its own accord: the error returned and the routes left
RECURSIVE MoveRun(_, _, _, _, _, _, _)
MoveRun(rs, list, i, link, src, dst, how) ==
    IF i > Len(list) THEN [err |-> "nil", routes |-> rs]
    ELSE LET route == list[i]
             seg == SegmentOf(route, link)
             own == OwnedByLink(route, link)
             skip == \/ NotInSrcTable(route, src)
                     \/ IsLocalLinkRoute(route)
                     \/ ~own /\ (Len(route.MultiPath) = 0 \/ seg = 0)
             d == IF own THEN route ELSE DeletedRoute(route.MultiPath[seg], src)
             m == IF own THEN MovedRoute(route, dst)
                  ELSE GeneratedRoute(route, route.MultiPath[seg], dst)
             kd == KRouteDel(rs, d, FALSE, how)
             ka == KRouteAdd(kd.routes, m, FALSE)
         IN  IF skip THEN MoveRun(rs, list, i + 1, link, src, dst, how)
             ELSE IF DelFailed(kd.errno)
                  THEN [err |-> "RouteDeleteFailed", routes |-> kd.routes]
             ELSE IF AddFailed(ka.errno)
                  THEN [err |-> "RouteAddFailed", routes |-> ka.routes]
             ELSE MoveRun(ka.routes, list, i + 1, link, src, dst, how)

\* the route tables a whole MoveRouteTable call that returns nil can leave, from rs
MoveResults(rs, iface, src, dst, fam) ==
    {SeqToSet(x.routes) :
        x \in {y \in {MoveRun(rs, RouteList(rs, fam), 1, LinkByName(iface), src, dst, how) :
                         how \in DelOutcomes} : y.err = "nil"}}

MoveRouteTable ==
    \/ \E a \in MoveArgs : MoveStart(a[1], a[2], a[3], a[4])
    \/ MoveIter
    \/ MoveAdd

----------------------------------------------------------------------------
(* Policy rules: netlink.NewRule / RuleAdd / RuleDel *)

Rule(src, dst, mark, table, fam, prio) ==
    [Src |-> src, Dst |-> dst, Mark |-> mark, Table |-> table, Family |-> fam,
     Priority |-> prio]

\* netlink.NewRule(): nothing matched, no table, priority left to the kernel
NewRule == Rule(NilNet, NilNet, -1, -1, FAMILY_ALL, -1)

\* the family a rule is filed under: netlink takes it from Dst or Src, else
\* from rule.Family, else IPv4
RuleFamily(rule) ==
    IF rule.Dst # NilNet THEN IPFamily(rule.Dst.IP)
    ELSE IF rule.Src # NilNet THEN IPFamily(rule.Src.IP)
    ELSE IF rule.Family # FAMILY_ALL THEN rule.Family
    ELSE FAMILY_V4

KRuleResult(errno, rs) == [errno |-> errno, rules |-> rs]

\* netlink.RuleAdd. The new rule is looked up before the older ones. Whether a
\* rule equal to an existing one is refused depends on the kernel (dup): it
\* answers EEXIST or installs the duplicate.
KRuleAdd(rs, rule, fault, dup) ==
    LET r == [rule EXCEPT !.Family = RuleFamily(rule)]
    IN  IF fault THEN KRuleResult("EPERM", rs)
        ELSE IF r \in SeqToSet(rs) /\ dup = "exists" THEN KRuleResult("EEXIST", rs)
        ELSE KRuleResult("ok", <<r>> \o rs)

\* a rule matched by a delete descriptor: the fields the descriptor sets are equal
RuleMatch(x, d) ==
    /\ x.Table = d.Table
    /\ x.Family = RuleFamily(d)
    /\ (d.Dst = NilNet \/ x.Dst = d.Dst)
    /\ (d.Src = NilNet \/ x.Src = d.Src)
    /\ (d.Mark = -1 \/ x.Mark = d.Mark)
    /\ (d.Priority = -1 \/ x.Priority = d.Priority)

\* netlink.RuleDel: the first rule the descriptor matches is removed
KRuleDel(rs, d, fault) ==
    LET i == FirstIndex(rs, LAMBDA x : RuleMatch(x, d))
    IN  IF fault THEN KRuleResult("EPERM", rs)
        ELSE IF i = 0 THEN KRuleResult("ENOENT", rs)
        ELSE KRuleResult("ok", RemoveAt(rs, i))

DupOutcomes == {"exists", "added"}

\* mutant: the add sets the source match where the destination is meant
AddToRule_SetsSrc(dst, ruleTable) == [NewRule EXCEPT !.Table = ruleTable, !.Src = dst]

\* the rule AddToRuleTable builds
AddToRule(dst, ruleTable) == [NewRule EXCEPT !.Table = ruleTable, !.Dst = dst]

\* the descriptor DelToRuleTable builds
DelToRule(dst, ruleTable) == [NewRule EXCEPT !.Table = ruleTable, !.Dst = dst]

\* the rule AddFromRuleTable builds
AddFromRule(src, ruleTable) == [NewRule EXCEPT !.Table = ruleTable, !.Src = src]

\* the descriptor DelFromRuleTable builds
DelFromRule(src, ruleTable) == [NewRule EXCEPT !.Table = ruleTable, !.Src = src]

\* mutant: the priority is left to the kernel
MarkRule_NoPriority(mark, ruleTable, ipFamily) ==
    [NewRule EXCEPT !.Mark = mark, !.Table = ruleTable, !.Family = ipFamily]

\* the rule AddRuleTableWithMark builds
MarkRule(mark, ruleTable, ipFamily) ==
    [NewRule EXCEPT !.Mark = mark, !.Table = ruleTable, !.Family = ipFamily,
                    !.Priority = defaultRulePriority]

\* what a rule-table call shares: the kernel's answer is returned as it is
RuleCall(op, args, k) ==
    /\ pc \in {"idle", "done"}
    /\ calls < MaxRuleCalls
    /\ calls' = calls + 1
    /\ pc' = "done"
    /\ prev' = cur
    /\ routes0' = routes
    /\ rules0' = rules
    /\ rules00' = rules0
    /\ routes00' = routes0
    /\ rules' = k.rules
    /\ cur' = Call(op, args, IF k.errno = "ok" THEN "nil" ELSE k.errno)
    /\ klog' = <<KLog(op, NoRoute, k.errno)>>
    /\ UNCHANGED <<routes, mList, mIdx, mAdd, result>>

AddToRuleTable(dst, ruleTable) ==
    \E fault \in BOOLEAN, dup \in DupOutcomes :
        RuleCall("AddToRuleTable", <<dst, ruleTable>>,
                 KRuleAdd(rules, AddToRule(dst, ruleTable), fault, dup))

DelToRuleTable(dst, ruleTable) ==
    \E fault \in BOOLEAN :
        RuleCall("DelToRuleTable", <<dst, ruleTable>>,
                 KRuleDel(rules, DelToRule(dst, ruleTable), fault))

AddRuleTableWithMark(mark, ruleTable, ipFamily) ==
    \E fault \in BOOLEAN, dup \in DupOutcomes :
        RuleCall("AddRuleTableWithMark", <<mark, ruleTable, ipFamily>>,
                 KRuleAdd(rules, MarkRule(mark, ruleTable, ipFamily), fault, dup))

AddFromRuleTable(src, ruleTable) ==
    \E fault \in BOOLEAN, dup \in DupOutcomes :
        RuleCall("AddFromRuleTable", <<src, ruleTable>>,
                 KRuleAdd(rules, AddFromRule(src, ruleTable), fault, dup))

DelFromRuleTable(src, ruleTable) ==
    \E fault \in BOOLEAN :
        RuleCall("DelFromRuleTable", <<src, ruleTable>>,
                 KRuleDel(rules, DelFromRule(src, ruleTable), fault))

RuleNets == {Net("10.1.0.0", 16), Net("2001:db8::", 64)}

Marks == {100}

----------------------------------------------------------------------------
(* GetDefaultGatewayByName *)

\* net.IP.Equal(net.IPv4zero)
EqualIPv4zero(ip) == ip = "0.0.0.0"

\* mutant: every route of the interface counts as a default route
GatewayRouteIsDefault_Always(route) == TRUE

\* route.Dst == nil || route.Dst.IP.Equal(net.IPv4zero)
GatewayRouteIsDefault(route) == route.Dst = NilNet \/ EqualIPv4zero(route.Dst.IP)

\* mutant: the first nexthop is taken whatever its link
GatewaySegment_First(route, link) == IF Len(route.MultiPath) > 0 THEN 1 ELSE 0

\* the scan of route.MultiPath up to its break: index of the first nexthop on
\* link, 0 when there is none
GatewaySegment(route, link) ==
    FirstIndex(route.MultiPath, LAMBDA r : r.LinkIndex = link.Index)

\* the gateways one route of the listing appends to gws
GatewaysOfRoute(route, link) ==
    IF route.LinkIndex = link.Index
    THEN IF GatewayRouteIsDefault(route) THEN <<IPString(route.Gw)>> ELSE <<>>
    ELSE IF Len(route.MultiPath) > 0 /\ GatewaySegment(route, link) > 0
         THEN <<IPString(route.MultiPath[GatewaySegment(route, link)].Gw)>>
         ELSE <<>>

RECURSIVE Gateways(_, _)
\* the loop over the listing
Gateways(rs, link) ==
    IF rs = <<>> THEN <<>>
    ELSE GatewaysOfRoute(Head(rs), link) \o Gateways(Tail(rs), link)

QueryCommon ==
    /\ pc = "idle"
    /\ pc' = "done"
    /\ prev' = cur
    /\ routes0' = routes
    /\ rules0' = rules
    /\ rules00' = rules0
    /\ routes00' = routes0
    /\ klog' = <<>>
    /\ UNCHANGED <<routes, rules, mList, mIdx, mAdd, calls>>

GetDefaultGatewayByName(iface, ipfamily) ==
    /\ QueryCommon
    /\ IF ~LinkByNameOK(iface)
       THEN /\ cur' = Call("GetDefaultGateways", <<iface, ipfamily>>, "InterfaceNotFound")
            /\ result' = <<>>
       ELSE /\ cur' = Call("GetDefaultGateways", <<iface, ipfamily>>, "nil")
            /\ result' = Gateways(RouteList(routes, ipfamily), LinkByName(iface))

----------------------------------------------------------------------------
(* GetDefaultRouteInterface *)

Found(name, err) == [name |-> name, err |-> err]

\* mutant: the name to ignore is not compared
getDefaultRouteIface_NoIgnore(linkIndex, ignore) ==
    IF ~LinkByIndexOK(linkIndex) THEN Found("", "LinkNotFound")
    ELSE Found(LinkByIndex(linkIndex).Name, "nil")

getDefaultRouteIface(linkIndex, ignore) ==
    IF ~LinkByIndexOK(linkIndex) THEN Found("", "LinkNotFound")
    ELSE IF ignore # "" /\ LinkByIndex(linkIndex).Name = ignore THEN Found("", "nil")
    ELSE Found(LinkByIndex(linkIndex).Name, "nil")

RECURSIVE ScanLinks(_, _)
\* the links are resolved in turn: the first error or non-empty name is returned
ScanLinks(idxs, filterInterface) ==
    IF idxs = <<>> THEN Found("", "nil")
    ELSE LET f == getDefaultRouteIface(Head(idxs), filterInterface)
         IN  IF f.err # "nil" THEN f
             ELSE IF f.name # "" THEN f
             ELSE ScanLinks(Tail(idxs), filterInterface)

RECURSIVE SegmentLinks_FirstOnly(_)
\* mutant: only the first nexthop of a route is looked at
SegmentLinks_FirstOnly(rs) ==
    IF rs = <<>> THEN <<>>
    ELSE (IF Len(Head(rs).MultiPath) > 0 THEN <<Head(rs).MultiPath[1].LinkIndex>> ELSE <<>>)
             \o SegmentLinks_FirstOnly(Tail(rs))

RECURSIVE SegmentLinks(_)
\* IPv6: the links of the nexthops of the routes that have nexthops, in order
SegmentLinks(rs) ==
    IF rs = <<>> THEN <<>>
    ELSE [k \in 1..Len(Head(rs).MultiPath) |-> Head(rs).MultiPath[k].LinkIndex]
             \o SegmentLinks(Tail(rs))

\* mutant: every IPv4 route counts as a default route
InterfaceRouteIsDefault_Always(route) == route.Family = FAMILY_V4

\* routes[idx].Family == FAMILY_V4 and Dst == nil || Dst.IP.Equal(net.IPv4zero)
InterfaceRouteIsDefault(route) ==
    /\ route.Family = FAMILY_V4
    /\ route.Dst = NilNet \/ EqualIPv4zero(route.Dst.IP)

RECURSIVE DefaultLinks(_)
\* otherwise: the links of the IPv4 default routes, in order
DefaultLinks(rs) ==
    IF rs = <<>> THEN <<>>
    ELSE (IF InterfaceRouteIsDefault(Head(rs)) THEN <<Head(rs).LinkIndex>> ELSE <<>>)
             \o DefaultLinks(Tail(rs))

GetDefaultRouteInterface(ipfamily, filterInterface) ==
    /\ QueryCommon
    /\ LET rs == RouteList(routes, ipfamily)
           f == IF ipfamily = FAMILY_V6
                THEN ScanLinks(SegmentLinks(rs), filterInterface)
                ELSE ScanLinks(DefaultLinks(rs), filterInterface)
       IN  /\ cur' = Call("FindDefaultInterface", <<ipfamily, filterInterface>>, f.err)
           /\ result' = f.name

----------------------------------------------------------------------------
(* Kernel states the calls start from *)

V4Default(link, gw, table) ==
    Route(link, FAMILY_V4, NilNet, gw, table, "universe", 0, <<>>)

V4Connected(link, table) ==
    Route(link, FAMILY_V4, Net("10.1.0.0", 16), NilIP, table, "link", 1500, <<>>)

V6LinkLocal(link, table) ==
    Route(link, FAMILY_V6, Net("fe80::", 64), NilIP, table, "universe", 0, <<>>)

V6Prefix(link, table) ==
    Route(link, FAMILY_V6, Net("2001:db8::", 64), NilIP, table, "universe", 0, <<>>)

V6MultipathDefault(table) ==
    Route(0, FAMILY_V6, NilNet, NilIP, table, "universe", 1500,
          <<NexthopInfo(1, "fe80::1"), NexthopInfo(2, "2001:db8::1")>>)

\* a multipath route to a prefix, both nexthops on one link
V6MultipathPrefix(link, table) ==
    Route(0, FAMILY_V6, Net("2001:db8::", 64), NilIP, table, "universe", 0,
          <<NexthopInfo(link, "fe80::1"), NexthopInfo(link, "2001:db8::1")>>)

\* a multipath default route, both nexthops on one link
V6MultipathSameLink(link, table) ==
    Route(0, FAMILY_V6, NilNet, NilIP, table, "universe", 0,
          <<NexthopInfo(link, "fe80::1"), NexthopInfo(link, "2001:db8::1")>>)

MovePool ==
    UNION {{V4Default(1, "10.0.0.1", t), V4Default(2, "10.1.1.1", t),
            V4Connected(1, t), V4Connected(2, t), V6LinkLocal(2, t), V6Prefix(2, t),
            V6MultipathDefault(t)} : t \in Tables}

\* the route lists of at most n routes of pool the kernel can hold
KernelRoutes(pool, n) ==
    {s \in UNION {[1..k -> pool] : k \in 0..n} :
        \A i, j \in 1..Len(s) : i # j => RouteKey(s[i]) # RouteKey(s[j])}

InitCommon ==
    /\ rules = <<>>
    /\ pc = "idle"
    /\ cur = NoCall
    /\ prev = NoCall
    /\ routes0 = routes
    /\ rules0 = <<>>
    /\ rules00 = <<>>
    /\ routes00 = routes
    /\ mList = <<>>
    /\ mIdx = 0
    /\ mAdd = NoRoute
    /\ klog = <<>>
    /\ result = <<>>
    /\ calls = 0

InitMove ==
    /\ routes \in KernelRoutes(MovePool, MaxRoutes)
    /\ InitCommon

NextMove == MoveRouteTable

\* one MoveRouteTable call from any kernel state
SpecMove == InitMove /\ [][NextMove]_vars

----------------------------------------------------------------------------
(* AddRoute *)

\* the switch on ipFamily: the gateway of the route, NilIP when none is set
SelectGw(fam, dst, v4Gw, v6Gw) ==
    IF fam = FAMILY_V4 THEN (IF v4Gw # NilIP THEN v4Gw ELSE NilIP)
    ELSE IF fam = FAMILY_V6 THEN (IF v6Gw # NilIP THEN v6Gw ELSE NilIP)
    ELSE IF dst # NilNet /\ To4NotNil(dst.IP) /\ v4Gw # NilIP THEN v4Gw
    ELSE IF dst # NilNet /\ ~To4NotNil(dst.IP) /\ v6Gw # NilIP THEN v6Gw
    ELSE NilIP

\* mutant: the switch has no default case
UnknownFamily_Never(fam) == FALSE

\* the switch's default case
UnknownFamily(fam) == fam \notin {FAMILY_V4, FAMILY_V6, FAMILY_ALL}

\* mutant: "already exists" is an error like any other
AddRouteFailed_ExistIsError(errno) == errno # "ok"

\* err != nil && !os.IsExist(err) after AddRoute's RouteAdd
AddRouteFailed(errno) == errno # "ok" /\ ~IsExist(errno)

AddRouteArgs ==
    {100} \X (Families \cup {99}) \X {"universe"} \X {"net1", "net9"}
        \X {NilNet, Net("10.1.0.0", 16), Net("2001:db8::", 64)}
        \X {NilIP, "10.1.1.1"} \X {NilIP, "2001:db8::1"}

AddRoute(ruleTable, ipFamily, scope, iface, dst, v4Gw, v6Gw) ==
    /\ pc \in {"idle", "done"}
    /\ calls < MaxRouteCalls
    /\ calls' = calls + 1
    /\ pc' = "done"
    /\ prev' = cur
    /\ routes0' = routes
    /\ rules0' = rules
    /\ rules00' = rules0
    /\ routes00' = routes0
    /\ UNCHANGED <<rules, mList, mIdx, mAdd, result>>
    /\ LET args == <<ruleTable, ipFamily, scope, iface, dst, v4Gw, v6Gw>>
       IN  IF ~LinkByNameOK(iface)
           THEN /\ cur' = Call("AddRoute", args, "InterfaceNotFound")
                /\ UNCHANGED routes
                /\ klog' = <<>>
           ELSE IF UnknownFamily(ipFamily)
           THEN /\ cur' = Call("AddRoute", args, "UnsupportedFamily")
                /\ UNCHANGED routes
                /\ klog' = <<>>
           ELSE \E fault \in BOOLEAN :
                  LET route == Route(LinkByName(iface).Index, FAMILY_ALL, dst,
                                     SelectGw(ipFamily, dst, v4Gw, v6Gw),
                                     ruleTable, scope, 0, <<>>)
                      k == KRouteAdd(routes, route, fault)
                  IN  /\ klog' = <<KLog("add", route, k.errno)>>
                      /\ routes' = k.routes
                      /\ cur' = Call("AddRoute", args,
                                     IF AddRouteFailed(k.errno)
                                     THEN "RouteAddFailed" ELSE "nil")

InitRoute ==
    /\ routes = <<>>
    /\ InitCommon

NextRoute == \E a \in AddRouteArgs : AddRoute(a[1], a[2], a[3], a[4], a[5], a[6], a[7])

\* AddRoute calls on a namespace that starts without routes
SpecRoute == InitRoute /\ [][NextRoute]_vars

RulePool ==
    {[NewRule EXCEPT !.Table = t, !.Dst = n] : n \in RuleNets, t \in Tables}
        \cup {[NewRule EXCEPT !.Table = t, !.Src = n] : n \in RuleNets, t \in Tables}
        \cup {MarkRule(m, t, f) : m \in Marks, t \in Tables, f \in {FAMILY_V4, FAMILY_V6}}

\* the rule lists of at most n rules of pool, as the kernel files them
KernelRules(pool, n) ==
    {[i \in 1..Len(s) |-> [s[i] EXCEPT !.Family = RuleFamily(s[i])]] :
        s \in UNION {[1..k -> pool] : k \in 0..n}}

InitRule ==
    /\ routes = <<>>
    /\ rules \in KernelRules(RulePool, MaxRules)
    /\ pc = "idle"
    /\ cur = NoCall
    /\ prev = NoCall
    /\ routes0 = routes
    /\ rules0 = rules
    /\ rules00 = rules
    /\ routes00 = routes
    /\ mList = <<>>
    /\ mIdx = 0
    /\ mAdd = NoRoute
    /\ klog = <<>>
    /\ result = <<>>
    /\ calls = 0

\* the table the calls name; the rules present at the start are of both tables
RuleTables == {100}

NextRule ==
    \/ \E n \in RuleNets, t \in RuleTables : AddToRuleTable(n, t)
    \/ \E n \in RuleNets, t \in RuleTables : DelToRuleTable(n, t)
    \/ \E n \in RuleNets, t \in RuleTables : AddFromRuleTable(n, t)
    \/ \E n \in RuleNets, t \in RuleTables : DelFromRuleTable(n, t)
    \/ \E m \in Marks, t \in RuleTables, f \in Families :
          AddRuleTableWithMark(m, t, f)

\* rule-table calls from any set of rules
SpecRule == InitRule /\ [][NextRule]_vars

V4DefaultZero(link, gw, table) ==
    Route(link, FAMILY_V4, Net("0.0.0.0", 0), gw, table, "universe", 0, <<>>)

V4MultipathDefault(table) ==
    Route(0, FAMILY_V4, NilNet, NilIP, table, "universe", 0,
          <<NexthopInfo(1, "10.0.0.1"), NexthopInfo(2, "10.1.1.1")>>)

V6Default(link, gw, table) ==
    Route(link, FAMILY_V6, NilNet, gw, table, "universe", 0, <<>>)

QueryPool ==
    UNION {{V4Default(1, "10.0.0.1", t), V4Default(2, "10.1.1.1", t),
            V4DefaultZero(2, "10.1.1.1", t), V4Connected(2, t),
            V4MultipathDefault(t), V6Default(2, "2001:db8::1", t),
            V6MultipathDefault(t)} : t \in Tables}
        \cup {V6MultipathPrefix(2, 254)}

InitQuery ==
    /\ routes \in KernelRoutes(QueryPool, MaxRoutes)
    /\ InitCommon

NextQuery ==
    \/ \E iface \in {"eth0", "net1", "net9"}, f \in Families :
          GetDefaultGatewayByName(iface, f)
    \/ \E f \in Families, x \in {"", "eth0", "net1"} :
          GetDefaultRouteInterface(f, x)

\* the read-only queries on any kernel state
SpecQuery == InitQuery /\ [][NextQuery]_vars

\* routes of the main table on both interfaces, and default routes the other
\* table already holds
RerunPool ==
    {V4Default(1, "10.0.0.1", 254), V4Connected(1, 254), V6Prefix(2, 254),
     V6MultipathDefault(254), V6MultipathPrefix(2, 254), V6MultipathSameLink(2, 254),
     V4Default(2, "10.1.1.1", 100), V6Default(1, "fe80::1", 100)}

RerunArgs == {"eth0", "net1"} \X {254} \X {100, 254} \X {FAMILY_ALL, FAMILY_V4}

InitRerun ==
    /\ routes \in KernelRoutes(RerunPool, MaxScan)
    /\ InitCommon

NextRerun ==
    \/ \E a \in RerunArgs : MoveStart(a[1], a[2], a[3], a[4])
    \/ MoveIter
    \/ MoveAdd
    \/ MoveAgain

\* a MoveRouteTable call and its repetitions
SpecRerun == InitRerun /\ [][NextRerun]_vars

LinkPool == {V4Default(1, "10.0.0.1", 254), V6MultipathDefault(254)}

LinkMoveArgs == {"eth0", "net9"} \X {254} \X {100} \X {FAMILY_ALL}

LinkAddArgs ==
    {100} \X {FAMILY_V4} \X {"universe"} \X {"net1", "net9"}
        \X {NilNet, Net("10.1.0.0", 16)} \X {"10.1.1.1"} \X {NilIP}

InitLink ==
    /\ routes \in KernelRoutes(LinkPool, MaxRoutes)
    /\ InitCommon

NextLink ==
    \/ \E a \in LinkMoveArgs : MoveStart(a[1], a[2], a[3], a[4])
    \/ MoveIter
    \/ MoveAdd
    \/ \E a \in LinkAddArgs : AddRoute(a[1], a[2], a[3], a[4], a[5], a[6], a[7])

\* the calls that resolve an interface name, on known and unknown names
SpecLink == InitLink /\ [][NextLink]_vars

Init ==
    /\ routes \in KernelRoutes(MovePool \cup QueryPool, MaxRoutes)
    /\ rules \in KernelRules(RulePool, MaxRules)
    /\ pc = "idle"
    /\ cur = NoCall
    /\ prev = NoCall
    /\ routes0 = routes
    /\ rules0 = rules
    /\ rules00 = rules
    /\ routes00 = routes
    /\ mList = <<>>
    /\ mIdx = 0
    /\ mAdd = NoRoute
    /\ klog = <<>>
    /\ result = <<>>
    /\ calls = 0

Next == NextMove \/ MoveAgain \/ NextRoute \/ NextRule \/ NextQuery

\* every operation, from any kernel state
Spec == Init /\ [][Next]_vars

----------------------------------------------------------------------------
(* Claims about MoveRouteTable *)

MoveCalled == cur.op = "MoveRoutes"

MoveLink == LinkByName(cur.args[1])

MoveSrc == cur.args[2]

MoveDst == cur.args[3]

MoveFam == cur.args[4]

MoveReturned == MoveCalled /\ pc = "done"

MoveRunning == MoveCalled /\ pc \in {"loop", "add"}

Present(r) == r \in SeqToSet(routes)

\* the routes the claims speak of: in the source table before the call, on the
\* interface, destination other than fe80::/64
RoutesOfInterface ==
    {r \in SeqToSet(routes0) :
        /\ r.Table = MoveSrc
        /\ r.LinkIndex = MoveLink.Index
        /\ r.Dst # Net("fe80::", 64)}

\* those of them the call's family selects
ListedRoutesOfInterface ==
    {r \in RoutesOfInterface : MoveFam = FAMILY_ALL \/ r.Family = MoveFam}

\* the destination table held a route to r's destination before the call
DstTableHeld(r) ==
    \E q \in SeqToSet(routes0) :
        q.Table = MoveDst /\ RouteKey(q) = RouteKey([r EXCEPT !.Table = MoveDst])

\* C1 as stated: after MoveRoutes returns without error, no route of the interface
\* (destination not fe80::/64) that was in srcTable remains there, and an equivalent
\* route, differing only in its table, is in dstTable. (Read for the routes of the
\* family the call names.)
C1_Original ==
    (MoveReturned /\ cur.err = "nil") =>
        \A r \in ListedRoutesOfInterface :
            /\ ~Present(r)
            /\ Present([r EXCEPT !.Table = MoveDst])

\* C1 amended: with srcTable # dstTable, after MoveRoutes returns without error
\* every route of the requested family that was in srcTable on the interface
\* (destination not fe80::/64) is gone from srcTable, and its equivalent is in
\* dstTable unless dstTable already held a route to the same destination.
C1_Moved ==
    (MoveReturned /\ cur.err = "nil" /\ MoveSrc # MoveDst) =>
        \A r \in ListedRoutesOfInterface :
            /\ ~Present(r)
            /\ Present([r EXCEPT !.Table = MoveDst]) \/ DstTableHeld(r)

C1_Witness ==
    /\ MoveReturned /\ cur.err = "nil" /\ MoveSrc # MoveDst
    /\ \E r \in ListedRoutesOfInterface :
          ~Present(r) /\ Present([r EXCEPT !.Table = MoveDst]) /\ ~DstTableHeld(r)

\* the multipath routes of the source table with a nexthop on the interface
MultipathOfInterface ==
    {x \in SeqToSet(routes0) :
        /\ x.Table = MoveSrc
        /\ x.LinkIndex # MoveLink.Index
        /\ x.Dst # Net("fe80::", 64)
        /\ SegmentOf(x, MoveLink) > 0}

\* the interface's nexthop of such a route
NexthopOn(x) == x.MultiPath[SegmentOf(x, MoveLink)]

\* table t routes x's destination through nexthop v, alone or among others
NexthopPresent(x, v, t) ==
    \E y \in SeqToSet(routes) :
        /\ y.Table = t
        /\ RouteKey([y EXCEPT !.Table = x.Table]) = RouteKey(x)
        /\ \/ Len(y.MultiPath) = 0 /\ y.LinkIndex = v.LinkIndex /\ y.Gw = v.Gw
           \/ \E k \in 1..Len(y.MultiPath) : y.MultiPath[k] = v

\* C2 as stated: in every intermediate state of MoveRoutes each route of the
\* interface being migrated is in the source table or in the destination table.
C2_Original ==
    MoveRunning =>
        /\ \A r \in RoutesOfInterface :
              Present(r) \/ Present([r EXCEPT !.Table = MoveDst])
        /\ \A x \in MultipathOfInterface :
              \/ NexthopPresent(x, NexthopOn(x), MoveSrc)
              \/ NexthopPresent(x, NexthopOn(x), MoveDst)

\* C2 amended: in every intermediate state of MoveRoutes each route of the
\* interface being migrated (a route on the interface, or the interface's nexthop
\* of a multipath route) is in the source table or in the destination table,
\* except the one route that has been deleted and is not yet re-added (the delete
\* comes first), and except a route whose destination the destination table
\* already held before the call.
C2_GapOnlyBetweenDelAndAdd ==
    MoveRunning =>
        /\ \A r \in RoutesOfInterface :
              \/ Present(r)
              \/ Present([r EXCEPT !.Table = MoveDst])
              \/ pc = "add" /\ mAdd = [r EXCEPT !.Table = MoveDst]
              \/ DstTableHeld(r)
        /\ \A x \in MultipathOfInterface :
              \/ NexthopPresent(x, NexthopOn(x), MoveSrc)
              \/ NexthopPresent(x, NexthopOn(x), MoveDst)
              \/ pc = "add" /\ mAdd = GeneratedRoute(x, NexthopOn(x), MoveDst)
              \/ DstTableHeld(x)

\* a route is in neither table between its delete and its add, and only it
C2_Witness ==
    /\ MoveRunning /\ pc = "add" /\ MoveSrc # MoveDst
    /\ \E r \in RoutesOfInterface :
          /\ mAdd = [r EXCEPT !.Table = MoveDst]
          /\ ~Present(r) /\ ~Present(mAdd) /\ ~DstTableHeld(r)
    /\ \E r \in RoutesOfInterface : Present([r EXCEPT !.Table = MoveDst])

LocalLinkRoutes(rs) == SelectSeq(rs, LAMBDA r : r.Dst = Net("fe80::", 64))

\* C3: during and after MoveRoutes, whether it succeeds or fails, the fe80::/64
\* routes of every table are exactly those present before the call: none is
\* removed from the source table or changed, none is added to the destination table.
C3_LocalLinkUntouched ==
    MoveCalled => LocalLinkRoutes(routes) = LocalLinkRoutes(routes0)

C3_Witness ==
    /\ MoveReturned /\ LinkByNameOK(cur.args[1])
    /\ \E r \in SeqToSet(routes0) :
          /\ r.Dst = Net("fe80::", 64) /\ r.Table = MoveSrc
          /\ r.LinkIndex = MoveLink.Index /\ r \in SeqToSet(mList)
    /\ \E i \in 1..Len(klog) : klog[i].op = "add" /\ klog[i].errno = "ok"

\* the interface has a route in the source table: as a route's link or as a nexthop
HasRouteInSrc ==
    \E r \in SeqToSet(routes0) :
        /\ r.Table = MoveSrc
        /\ \/ r.LinkIndex = MoveLink.Index
           \/ \E k \in 1..Len(r.MultiPath) : r.MultiPath[k].LinkIndex = MoveLink.Index

\* C4: for an existing interface with no route in the source table MoveRoutes
\* issues no route delete or add, leaves the routing tables as they were and
\* returns no error.
C4_NoRoutesNoOp ==
    (MoveCalled /\ pc # "idle" /\ LinkByNameOK(cur.args[1]) /\ ~HasRouteInSrc) =>
        /\ klog = <<>>
        /\ routes = routes0
        /\ pc = "done" => cur.err = "nil"

C4_Witness ==
    /\ MoveReturned /\ LinkByNameOK(cur.args[1]) /\ ~HasRouteInSrc
    /\ \E r \in SeqToSet(mList) : r.Table = MoveSrc
    /\ cur.err = "nil" /\ routes = routes0

----------------------------------------------------------------------------
(* Claims about AddRoute *)

\* the call that just returned repeats the arguments of the call before it
SameCallTwice(op) == cur.op = op /\ prev.op = op /\ cur.args = prev.args

\* the kernel refused a mutation of cur for a reason of its own
KernelRefused == \E i \in 1..Len(klog) : klog[i].errno = "EPERM"

\* C5: an AddRoute that repeats the arguments of a successful AddRoute succeeds
\* too (the kernel's "already exists" is returned as success) and leaves the
\* routing tables as the first call left them.
C5_AddRouteIdempotent ==
    (SameCallTwice("AddRoute") /\ prev.err = "nil" /\ ~KernelRefused) =>
        /\ cur.err = "nil"
        /\ routes = routes0

C5_Witness ==
    /\ SameCallTwice("AddRoute") /\ prev.err = "nil" /\ cur.err = "nil"
    /\ Len(klog) = 1 /\ klog[1].errno = "EEXIST"
    /\ routes = routes0 /\ Len(routes) = 1

----------------------------------------------------------------------------
(* Claims about the rule table *)

\* cur is the delete that follows the add of the same network and table
AddThenDel(add, del) ==
    /\ prev.op = add /\ cur.op = del /\ cur.args = prev.args
    /\ prev.err = "nil" /\ cur.err = "nil"

RuleNet == cur.args[1]

RuleTable == cur.args[2]

\* a rule matching destination n bound to table t
ToRuleIn(rs, n, t) == \E i \in 1..Len(rs) : rs[i].Dst = n /\ rs[i].Table = t

\* a rule matching source n bound to table t
FromRuleIn(rs, n, t) == \E i \in 1..Len(rs) : rs[i].Src = n /\ rs[i].Table = t

\* the rules of rs other than those matching destination n bound to table t
OtherThanTo(rs, n, t) == SelectSeq(rs, LAMBDA x : ~(x.Dst = n /\ x.Table = t))

\* the rules of rs other than those matching source n bound to table t
OtherThanFrom(rs, n, t) == SelectSeq(rs, LAMBDA x : ~(x.Src = n /\ x.Table = t))

\* C6 as stated: after the add and the delete of the same network and table (both
\* returning no error) no rule matching that network bound to that table remains,
\* and all other rules are unchanged.
C6_Original ==
    /\ AddThenDel("AddToRuleTable", "DelToRuleTable") =>
          /\ ~ToRuleIn(rules, RuleNet, RuleTable)
          /\ OtherThanTo(rules, RuleNet, RuleTable) = OtherThanTo(rules00, RuleNet, RuleTable)
    /\ AddThenDel("AddFromRuleTable", "DelFromRuleTable") =>
          /\ ~FromRuleIn(rules, RuleNet, RuleTable)
          /\ OtherThanFrom(rules, RuleNet, RuleTable) = OtherThanFrom(rules00, RuleNet, RuleTable)

\* C6 amended: the delete undoes the add. After the add and the delete of the same
\* network and table (both returning no error) the rules are exactly those present
\* before the add; so no rule matching that network bound to that table remains
\* when none existed before the add, and all other rules are unchanged.
C6_DelUndoesAdd ==
    /\ AddThenDel("AddToRuleTable", "DelToRuleTable") =>
          /\ rules = rules00
          /\ ~ToRuleIn(rules00, RuleNet, RuleTable) => ~ToRuleIn(rules, RuleNet, RuleTable)
    /\ AddThenDel("AddFromRuleTable", "DelFromRuleTable") =>
          /\ rules = rules00
          /\ ~FromRuleIn(rules00, RuleNet, RuleTable) => ~FromRuleIn(rules, RuleNet, RuleTable)

C6_Witness ==
    /\ AddThenDel("AddToRuleTable", "DelToRuleTable")
    /\ Len(rules00) = 1 /\ ~ToRuleIn(rules00, RuleNet, RuleTable)
    /\ ToRuleIn(rules0, RuleNet, RuleTable) /\ Len(rules0) = 2
    /\ ~ToRuleIn(rules, RuleNet, RuleTable) /\ rules = rules00

----------------------------------------------------------------------------
(* Claims about GetDefaultGatewayByName *)

GatewaysCalled == cur.op = "GetDefaultGateways" /\ cur.err = "nil"

\* the routes the query lists: those of its family
GwListed == RouteList(routes, cur.args[2])

GwLink == LinkByName(cur.args[1])

\* nil or the all-zeros IPv4 destination
DefaultDst(dst) == dst = NilNet \/ dst = Net("0.0.0.0", 0)

\* positions of the plain default routes of the interface
PlainDefaults ==
    {i \in 1..Len(GwListed) :
        /\ GwListed[i].LinkIndex = GwLink.Index
        /\ Len(GwListed[i].MultiPath) = 0
        /\ DefaultDst(GwListed[i].Dst)}

\* positions <<route, nexthop>> of the interface's nexthops in multipath routes
NexthopsOnLink ==
    UNION {{<<i, k>> : k \in {k \in 1..Len(GwListed[i].MultiPath) :
                                 GwListed[i].MultiPath[k].LinkIndex = GwLink.Index}} :
           i \in 1..Len(GwListed)}

\* C7: an interface with one plain default route, gateway g, and no nexthop of
\* a multipath route gets exactly <<g>>: its other routes and the default routes
\* of other interfaces add nothing.
C7_PlainDefaultGateway ==
    (GatewaysCalled /\ Cardinality(PlainDefaults) = 1 /\ NexthopsOnLink = {}) =>
        \A i \in PlainDefaults : result = <<GwListed[i].Gw>>

C7_Witness ==
    /\ GatewaysCalled /\ Cardinality(PlainDefaults) = 1 /\ NexthopsOnLink = {}
    /\ Len(GwListed) = 2 /\ result = <<"10.1.1.1">>
    /\ \E i \in 1..2 : GwListed[i].LinkIndex = GwLink.Index /\ ~DefaultDst(GwListed[i].Dst)

\* C8: an interface that appears only as one nexthop, gateway g, of a multipath
\* default route gets exactly <<g>>, not the gateways of the other nexthops.
C8_MultipathGateway ==
    (GatewaysCalled /\ PlainDefaults = {} /\ Cardinality(NexthopsOnLink) = 1) =>
        \A p \in NexthopsOnLink : result = <<GwListed[p[1]].MultiPath[p[2]].Gw>>

C8_Witness ==
    /\ GatewaysCalled /\ PlainDefaults = {} /\ NexthopsOnLink = {<<1, 2>>}
    /\ cur.args[2] = FAMILY_V6 /\ result = <<"2001:db8::1">>

----------------------------------------------------------------------------
(* Claims about GetDefaultRouteInterface *)

FindCalled == cur.op = "FindDefaultInterface"

FindFamily == cur.args[1]

Excluded == cur.args[2]

FindListed == RouteList(routes, FindFamily)

\* link index idx is the excluded interface
OnExcluded(idx) ==
    Excluded # "" /\ \E l \in Links : l.Index = idx /\ l.Name = Excluded

\* positions of the IPv4 default routes
V4Defaults ==
    {i \in 1..Len(FindListed) :
        FindListed[i].Family = FAMILY_V4 /\ DefaultDst(FindListed[i].Dst)}

\* those not on the excluded interface
V4Candidates == {i \in V4Defaults : ~OnExcluded(FindListed[i].LinkIndex)}

Min(S) == CHOOSE i \in S : \A j \in S : i <= j

NothingQualifies ==
    IF FindFamily = FAMILY_V6
    THEN \A i \in 1..Len(FindListed) : \A k \in 1..Len(FindListed[i].MultiPath) :
            OnExcluded(FindListed[i].MultiPath[k].LinkIndex)
    ELSE V4Candidates = {}

----------------------------------------------------------------------------
(* Claims about AddRuleTableWithMark *)

MarkCalled == cur.op = "AddRuleTableWithMark" /\ cur.err = "nil"

\* the one rule a successful call put in front of the rules it found, and
\* what it matches
MarkInstalled(fam) ==
    /\ Len(rules) = Len(rules0) + 1
    /\ rules = <<rules[1]>> \o rules0
    /\ rules[1].Mark = cur.args[1]
    /\ rules[1].Table = cur.args[2]
    /\ rules[1].Family = fam
    /\ rules[1].Priority = defaultRulePriority
    /\ rules[1].Src = NilNet
    /\ rules[1].Dst = NilNet

\* C11 as stated: a successful AddMarkRule(mark, table, family) installs exactly
\* one rule matching the mark only, of the given family, to the given table, at
\* priority 1000, for every family
C11_Original == MarkCalled => MarkInstalled(cur.args[3])

\* C11 amended: a successful AddMarkRule(mark, table, family) installs exactly
\* one rule matching the mark only, to the given table, at priority 1000; its
\* family is the given one for v4 and v6, and IPv4 when the family is "both"
C11_MarkRuleInstalled ==
    MarkCalled =>
        MarkInstalled(IF cur.args[3] = FAMILY_ALL THEN FAMILY_V4 ELSE cur.args[3])

C11_Witness ==
    /\ MarkCalled
    /\ cur.args[3] = FAMILY_V6
    /\ rules0 # <<>>
    /\ rules[1].Priority = defaultRulePriority

----------------------------------------------------------------------------
(* Claims about a failing MoveRouteTable *)

MoveFailed ==
    MoveReturned /\ cur.err \in {"RouteDeleteFailed", "RouteAddFailed"}

\* the kernel's answer made the call fail
FailingAnswer(e) ==
    \/ e.op = "del" /\ e.errno # "ok"
    \/ e.op = "add" /\ e.errno \notin {"ok", "EEXIST"}

\* C12: when a delete or an add (other than "already exists") fails, MoveRoutes
\* returns an error with that kernel operation as its last one; the routes it
\* added to the destination table before are still there, and the routes later
\* in the scan are still where they were.
C12_FailFast ==
    /\ (MoveCalled /\ pc # "idle") =>
          \A i \in 1..Len(klog) :
              FailingAnswer(klog[i]) =>
                  /\ i = Len(klog)
                  /\ MoveFailed
                  /\ cur.err = IF klog[i].op = "del" THEN "RouteDeleteFailed"
                                                     ELSE "RouteAddFailed"
    /\ MoveFailed =>
          /\ klog # <<>> /\ FailingAnswer(klog[Len(klog)])
          /\ \A i \in 1..Len(klog) :
                (klog[i].op = "add" /\ klog[i].errno = "ok") =>
                    Present([klog[i].route EXCEPT !.Family = RouteFamily(klog[i].route)])
          /\ \A j \in (mIdx + 1)..Len(mList) : Present(mList[j])

\* MoveRoutes failed, was run again with the same arguments, and that run
\* returned without error
RerunSucceeded ==
    /\ MoveReturned /\ cur.err = "nil"
    /\ prev.op = "MoveRoutes" /\ prev.args = cur.args
    /\ prev.err \in {"RouteDeleteFailed", "RouteAddFailed"}

\* the routes of the interface in the source table before the failed call
RoutesOfInterfaceBefore ==
    {r \in SeqToSet(routes00) :
        /\ r.Table = MoveSrc
        /\ r.LinkIndex = MoveLink.Index
        /\ r.Dst # Net("fe80::", 64)
        /\ (MoveFam = FAMILY_ALL \/ r.Family = MoveFam)}

\* C13: after a MoveRoutes that failed at a delete or an add, a later run with
\* the same arguments that returns no error ends in the routing tables a single
\* successful run from the original state would have produced, and no route of
\* the interface is lost: each is in the source or in the destination table.
C13_RerunRecovers ==
    RerunSucceeded =>
        /\ SeqToSet(routes) \in
              MoveResults(routes00, cur.args[1], MoveSrc, MoveDst, MoveFam)
        /\ \A r \in RoutesOfInterfaceBefore :
              \/ Present(r)
              \/ Present([r EXCEPT !.Table = MoveDst])
              \/ \E q \in SeqToSet(routes00) :
                    q.Table = MoveDst /\ RouteKey(q) = RouteKey([r EXCEPT !.Table = MoveDst])

----------------------------------------------------------------------------
(* Claims about the multipath branch of MoveRouteTable *)

\* the routes the call scans that are in the source table, not on the interface,
\* and carry nexthops
ScannedMultipath ==
    {x \in SeqToSet(mList) :
        /\ x.Table = MoveSrc
        /\ x.Dst # Net("fe80::", 64)
        /\ x.LinkIndex # MoveLink.Index
        /\ Len(x.MultiPath) > 0}

SegsOn(x) == {k \in 1..Len(x.MultiPath) : x.MultiPath[k].LinkIndex = MoveLink.Index}

\* the interface's first nexthop of x
FirstSegOn(x) == x.MultiPath[Min(SegsOn(x))]

\* r is a single-nexthop default route of table t through nexthop v
SingleNexthop(r, v, t) ==
    /\ r.Table = t
    /\ KeyDst(r.Dst) = NilNet
    /\ r.LinkIndex = v.LinkIndex
    /\ r.Gw = v.Gw
    /\ Len(r.MultiPath) = 0

\* the call deleted the descriptor of v and then added the new route of v
DeletedThenAdded(v) ==
    \E i \in 1..(Len(klog) - 1) :
        /\ klog[i].op = "del" /\ klog[i].errno = "ok"
        /\ SingleNexthop(klog[i].route, v, MoveSrc)
        /\ klog[i + 1].op = "add" /\ klog[i + 1].errno \in {"ok", "EEXIST"}
        /\ SingleNexthop(klog[i + 1].route, v, MoveDst)

\* no add of the new route of v without the delete of its descriptor right before
NoAddBeforeDelete(v) ==
    \A i \in 1..Len(klog) :
        (klog[i].op = "add" /\ SingleNexthop(klog[i].route, v, MoveDst)) =>
            /\ i > 1
            /\ klog[i - 1].op = "del" /\ klog[i - 1].errno = "ok"
            /\ SingleNexthop(klog[i - 1].route, v, MoveSrc)

\* the destination table held a default route of v's family before the call
DstTableHeldDefault(v) ==
    \E q \in SeqToSet(routes0) :
        q.Table = MoveDst /\ RouteKey(q) = <<MoveDst, IPFamily(v.Gw), NilNet>>

MultipathMoved(x, excused) ==
    IF SegsOn(x) = {}
    THEN /\ Present(x)
         /\ \A i \in 1..Len(klog) : RouteKey(klog[i].route) # RouteKey(x)
    ELSE /\ NoAddBeforeDelete(FirstSegOn(x))
         /\ (pc = "done" /\ cur.err = "nil") =>
               /\ DeletedThenAdded(FirstSegOn(x))
               /\ \/ \E y \in SeqToSet(routes) : SingleNexthop(y, FirstSegOn(x), MoveDst)
                  \/ excused

\* C14 as stated: for a scanned source-table route not on the interface that
\* carries nexthops, the descriptor of the interface's nexthop is deleted from the
\* source table and only then a single-nexthop route through it is added to the
\* destination table, and after a successful call the destination table holds a
\* default route through that nexthop; a route with no nexthop on the interface
\* is skipped and stays as it was.
C14_Original ==
    (MoveCalled /\ pc # "idle" /\ LinkByNameOK(cur.args[1])) =>
        \A x \in ScannedMultipath : MultipathMoved(x, FALSE)

\* C14 amended: as C14, where the destination table holds the default route
\* through the nexthop after a successful call with srcTable # dstTable unless
\* it already held a default route of that family before the call.
C14_MultipathMoved ==
    (MoveCalled /\ pc # "idle" /\ LinkByNameOK(cur.args[1])) =>
        \A x \in ScannedMultipath :
            MultipathMoved(x, MoveSrc = MoveDst \/ DstTableHeldDefault(FirstSegOn(x)))

C14_Witness ==
    /\ MoveReturned /\ cur.err = "nil" /\ MoveSrc # MoveDst
    /\ \E x \in ScannedMultipath :
          /\ SegsOn(x) # {}
          /\ ~DstTableHeldDefault(FirstSegOn(x))
          /\ DeletedThenAdded(FirstSegOn(x))
          /\ \E y \in SeqToSet(routes) : SingleNexthop(y, FirstSegOn(x), MoveDst)
    /\ \E x \in ScannedMultipath : SegsOn(x) = {} /\ Present(x)

----------------------------------------------------------------------------
(* Claims about the gateway and the family of AddRoute *)

AddRouteCalled == cur.op = "AddRoute"

AddFamily == cur.args[2]

AddIface == cur.args[4]

AddDst == cur.args[5]

AddV4Gw == cur.args[6]

AddV6Gw == cur.args[7]

\* AddRoute built a route and handed it to the kernel
AddSubmitted == AddRouteCalled /\ klog # <<>>

\* the destination is an IPv4 network
DstIsV4 == AddDst # NilNet /\ AddDst.IP \in V4Addrs

\* C15: the gateway of the route AddRoute submits is ipv4Gateway for v4 when it
\* is non-nil, ipv6Gateway for v6 when it is non-nil, and for "both" ipv4Gateway
\* if the destination is an IPv4 address and otherwise ipv6Gateway, for every
\* destination, a nil one included; the route the kernel installs has it.
C15_GatewayByFamily ==
    AddSubmitted =>
        LET gw == klog[1].route.Gw
        IN  /\ (AddFamily = FAMILY_V4 /\ AddV4Gw # NilIP) => gw = AddV4Gw
            /\ (AddFamily = FAMILY_V6 /\ AddV6Gw # NilIP) => gw = AddV6Gw
            /\ AddFamily = FAMILY_ALL => gw = IF DstIsV4 THEN AddV4Gw ELSE AddV6Gw
            /\ klog[1].errno = "ok" =>
                  /\ Len(routes) = Len(routes0) + 1
                  /\ routes[Len(routes)].Gw = gw

\* C16: AddRoute with a family outside {v4, v6, both} on an existing interface
\* fails with UnsupportedFamily, hands nothing to the kernel and leaves the
\* routing tables as they were.
C16_UnsupportedFamily ==
    (/\ AddRouteCalled
     /\ AddIface \in {l.Name : l \in Links}
     /\ AddFamily \notin {FAMILY_V4, FAMILY_V6, FAMILY_ALL}) =>
        /\ cur.err = "UnsupportedFamily"
        /\ klog = <<>>
        /\ routes = routes0

C16_Witness ==
    /\ AddRouteCalled
    /\ AddIface \in {l.Name : l \in Links}
    /\ AddFamily \notin {FAMILY_V4, FAMILY_V6, FAMILY_ALL}
    /\ cur.err = "UnsupportedFamily"
    /\ routes0 # <<>> /\ routes = routes0

----------------------------------------------------------------------------
(* Claims about an interface name that does not resolve *)

\* the interface name of the call
CallIface ==
    IF cur.op = "MoveRoutes" THEN cur.args[1]
    ELSE IF cur.op = "AddRoute" THEN cur.args[4]
    ELSE ""

UnknownIface ==
    /\ cur.op \in {"MoveRoutes", "AddRoute"}
    /\ CallIface \notin {l.Name : l \in Links}

\* C17: MoveRoutes and AddRoute with an interface name that resolves to no link
\* fail with InterfaceNotFound before any mutation: no route delete or add is
\* issued and the routing tables are as they were.
C17_InterfaceNotFound ==
    UnknownIface =>
        /\ pc = "done"
        /\ cur.err = "InterfaceNotFound"
        /\ klog = <<>>
        /\ routes = routes0

\* both calls have failed so, on a namespace with routes
C17_Witness ==
    /\ UnknownIface /\ cur.op = "AddRoute" /\ cur.err = "InterfaceNotFound"
    /\ prev.op = "MoveRoutes" /\ prev.err = "InterfaceNotFound"
    /\ routes # <<>> /\ routes = routes0

----------------------------------------------------------------------------
(* Claims about GetDefaultRouteInterface for IPv6 *)

\* the nexthops of the listed routes, as <<route position, nexthop position>>
Segments ==
    UNION {{<<i, k>> : k \in 1..Len(FindListed[i].MultiPath)} : i \in 1..Len(FindListed)}

SegLink(p) == FindListed[p[1]].MultiPath[p[2]].LinkIndex

\* those on a link that is not the excluded interface
SegCandidates == {p \in Segments : ~OnExcluded(SegLink(p))}

\* the first of them, in route order and then in nexthop order
FirstSeg(S) ==
    CHOOSE p \in S : \A q \in S : p[1] < q[1] \/ (p[1] = q[1] /\ p[2] <= q[2])

----------------------------------------------------------------------------
(* Claims about what MoveRouteTable leaves alone *)

InOtherTable(r) == r.Table # MoveSrc

PlainOnOtherLink(r) ==
    r.Table = MoveSrc /\ Len(r.MultiPath) = 0 /\ r.LinkIndex # MoveLink.Index

MultipathWithoutSegment(r) ==
    /\ r.Table = MoveSrc /\ Len(r.MultiPath) > 0
    /\ \A k \in 1..Len(r.MultiPath) : r.MultiPath[k].LinkIndex # MoveLink.Index

\* C19: during and after MoveRoutes, whether it succeeds or fails, every route
\* that was in a table other than srcTable, every non-multipath route of srcTable
\* on another interface and every multipath route of srcTable with no segment on
\* the interface is still there as it was, and no delete was issued for it.
C19_OthersUntouched ==
    (MoveCalled /\ pc # "idle") =>
        \A r \in SeqToSet(routes0) :
            (InOtherTable(r) \/ PlainOnOtherLink(r) \/ MultipathWithoutSegment(r)) =>
                /\ Present(r)
                /\ \A i \in 1..Len(klog) :
                      (klog[i].op = "del" /\ klog[i].errno = "ok") => klog[i].route # r

\* a route of the interface was moved past a route of each kind
C19_Witness ==
    /\ MoveReturned /\ cur.err = "nil" /\ MoveSrc # MoveDst
    /\ \E i \in 1..Len(klog) : klog[i].op = "add" /\ klog[i].errno = "ok"
    /\ \E r \in SeqToSet(routes0) : InOtherTable(r) /\ Present(r)
    /\ \E r \in SeqToSet(routes0) :
          (PlainOnOtherLink(r) \/ MultipathWithoutSegment(r)) /\ Present(r)

----------------------------------------------------------------------------
(* Claims about repeating a MoveRouteTable that succeeded *)

\* MoveRoutes returned nil and was called again with the same arguments
RepeatedAfterSuccess ==
    /\ MoveCalled /\ pc # "idle"
    /\ prev.op = "MoveRoutes" /\ prev.args = cur.args /\ prev.err = "nil"
    /\ MoveSrc # MoveDst

\* C20: with srcTable # dstTable, a MoveRoutes repeated with the same arguments
\* after it returned without error issues no delete or add, leaves every routing
\* table as it was and returns no error.
C20_RepeatIsNoOp ==
    RepeatedAfterSuccess =>
        /\ klog = <<>>
        /\ routes = routes0
        /\ pc = "done" => cur.err = "nil"

=============================================================================
